---- MODULE Spec2Model ----
(***************************************************************************)
(* A model of parsebot: the chunking of extracted text, the retrieval and  *)
(* generation step (rag_pipeline), the web Session held in the two module  *)
(* globals of app.py (index / ask / clear), and the command-line loop of   *)
(* chatbot_functions.py.                                                   *)
(*                                                                         *)
(* Text.  A text is the sequence of the lengths of its paragraphs, the     *)
(* paragraphs being the pieces between "\n\n" separators: <<250, 45>> is a *)
(* 250-character paragraph, a blank line, and a 45-character paragraph.    *)
(* Joining texts with "\n\n" is then concatenation of the sequences.       *)
(***************************************************************************)
EXTENDS Naturals, Sequences, FiniteSets

VARIABLES
    qa_pipeline,    \* app.py global: the RetrievalQA chain, or None
    vectorstore,    \* app.py global: the FAISS store, or None
    pc,             \* per request thread: the place its handler has reached
    local,          \* per request thread: the handler's local values
    response,       \* what the last completed request (or call) returned
    sinceClear,     \* history: a clear completed and no ingestion succeeded since
    cliPc,          \* command-line loop: "menu", "query" or "exit"
    cliQa,          \* command-line loop: local qa
    cliVs,          \* command-line loop: local vectorstore
    content,        \* chunking: the text blocks read from the source
    texts,          \* chunking: the result of process_pdf on content
    arg_chain,      \* rag_pipeline called directly: its qa_chain argument
    arg_store       \* rag_pipeline called directly: its vectorstore argument

vars == <<qa_pipeline, vectorstore, pc, local, response, sinceClear,
          cliPc, cliQa, cliVs, content, texts, arg_chain, arg_store>>

webVars == <<qa_pipeline, vectorstore, pc, local, sinceClear>>
cliVars == <<cliPc, cliQa, cliVs>>
chunkVars == <<content, texts>>
argVars == <<arg_chain, arg_store>>

----------------------------------------------------------------------------
(* Configuration, chatbot_functions.py *)

CHUNK_SIZE == 300
CHUNK_OVERLAP == 50
\* k of the explicit similarity_search_with_score call in rag_pipeline
TOP_K == 3
\* k of the chain's own retriever: vectorstore.as_retriever() is given no
\* search_kwargs, and the library's similarity search then takes 4
RETRIEVER_K == 4
\* len("\n\n"), the separator CharacterTextSplitter is constructed with
SepLen == 2

\* Python's None, where an object reference is expected
None == [id |-> 0]

----------------------------------------------------------------------------
(* Bounds *)

\* paragraphs per block in the chunking inputs
MaxPars == 3
\* segments in a store handed to rag_pipeline directly
MaxDocs == 4
\* exchanges a chain's conversation memory holds before queries stop
MaxHistory == 2
\* distinct non-empty questions
MaxQuery == 2
\* request threads of the web server
NumThreads == 2

----------------------------------------------------------------------------
(* Chunking: CharacterTextSplitter(chunk_size, chunk_overlap).split_documents *)

RECURSIVE Sum(_)
Sum(s) == IF s = <<>> THEN 0 ELSE Head(s) + Sum(Tail(s))

\* len() of a text
TextLen(text) == IF text = <<>> THEN 0 ELSE Sum(text) + SepLen * (Len(text) - 1)

SepIf(cond) == IF cond THEN SepLen ELSE 0

\* the while loop of _merge_splits: drop leading pieces of the chunk just
\* emitted until what is left fits the overlap and leaves room for len
RECURSIVE PopOverlap(_, _, _, _)
PopOverlap(splits, cur, total, len) ==
    IF \/ total > CHUNK_OVERLAP
       \/ (total + len + SepIf(Len(cur) > 0) > CHUNK_SIZE /\ total > 0)
    THEN PopOverlap(splits, Tail(cur),
                    total - (splits[Head(cur)] + SepIf(Len(cur) > 1)), len)
    ELSE [cur |-> cur, total |-> total]

\* _merge_splits from piece i on; cur holds the indices of the pieces of the
\* chunk being built, docs the chunks emitted so far (as index sequences)
RECURSIVE MergeFrom(_, _, _, _, _)
MergeFrom(splits, i, docs, cur, total) ==
    IF i > Len(splits)
    THEN IF cur = <<>> THEN docs ELSE Append(docs, cur)
    ELSE LET len == splits[i]
             emit == total + len + SepIf(Len(cur) > 0) > CHUNK_SIZE /\ Len(cur) > 0
             kept == IF emit THEN PopOverlap(splits, cur, total, len)
                     ELSE [cur |-> cur, total |-> total]
             cur2 == Append(kept.cur, i)
         IN MergeFrom(splits, i + 1,
                      IF emit THEN Append(docs, cur) ELSE docs,
                      cur2,
                      kept.total + len + SepIf(Len(cur2) > 1))

MergeSplits(splits) == MergeFrom(splits, 1, <<>>, <<>>, 0)

\* split_text: the chunks of one block, each the joined text of its pieces
SplitText(block) ==
    LET m == MergeSplits(block)
    IN [k \in 1..Len(m) |-> [j \in 1..Len(m[k]) |-> block[m[k][j]]]]

\* the offset in the block at which piece i starts
Offset(block, i) == IF i = 1 THEN 0 ELSE TextLen(SubSeq(block, 1, i - 1)) + SepLen

\* the offsets at which the chunks of split_text start
ChunkStarts(block) ==
    LET m == MergeSplits(block)
    IN [k \in 1..Len(m) |-> Offset(block, m[k][1])]

RECURSIVE SplitDocuments(_)
SplitDocuments(blocks) ==
    IF blocks = <<>> THEN <<>>
    ELSE SplitText(Head(blocks)) \o SplitDocuments(Tail(blocks))

\* process_pdf / process_website / process_word_document on the blocks the
\* reader returned: no content raises ValueError, otherwise the chunks
process_pdf(blocks) ==
    IF blocks = <<>> THEN [raised |-> TRUE, docs |-> <<>>]
    ELSE [raised |-> FALSE, docs |-> SplitDocuments(blocks)]

----------------------------------------------------------------------------
(* The objects initialize_rag_pipeline builds.  A store is                 *)
(* [id, docs]: its identity and the segment texts it indexes, in insertion *)
(* order.  A chain is [id, retriever, memory]: its identity, the store its *)
(* retriever searches, and the questions of the exchanges its              *)
(* ConversationBufferMemory has saved.  An identity is free for reuse once *)
(* nothing refers to the object, as an address is.                         *)

Threads == 1..NumThreads
\* the Session may refer to two objects, and so may each thread
Ids == 1..(2 * NumThreads + 1)
\* a question; 0 is the empty string, q >= 1 a question whose embedding
\* lies nearest the embedding of segment number q
Queries == 0..MaxQuery

NoLocal == [query |-> 0, qa |-> None, vs |-> None]

IdOf(ref) == ref.id

UsedIds ==
    LET refs == {qa_pipeline, vectorstore, cliQa, cliVs, arg_chain, arg_store}
                  \cup {local[t].qa : t \in Threads}
                  \cup {local[t].vs : t \in Threads}
    IN {r.id : r \in refs \ {None}}

FreshId == CHOOSE i \in Ids \ UsedIds : \A j \in Ids \ UsedIds : i <= j

\* initialize_rag_pipeline(texts): the embedding of the texts or the index
\* build may raise; otherwise one new store and one new chain over it
initialize_rag_pipeline(segs, id, outcome) ==
    IF segs = <<>> \/ outcome = "embed_fail"
    THEN [raised |-> TRUE, qa |-> None, vs |-> None]
    ELSE LET vs == [id |-> id, docs |-> segs]
         IN [raised |-> FALSE,
             qa |-> [id |-> id, retriever |-> vs, memory |-> <<>>],
             vs |-> vs]

----------------------------------------------------------------------------
(* Retrieval and generation: rag_pipeline *)

Fallback == "I don't have enough information to answer that question."
NoAnswer == ""

\* the external generation service answers, or itself answers with the
\* sentence the template names; either service may fail
Outcomes == {"answer", "declined", "embed_fail", "generate_fail"}

Distance(q, i) == IF q > i THEN q - i ELSE i - q

\* the segments nearest the question, best first, ties by insertion order
RECURSIVE Nearest(_, _, _)
Nearest(cands, q, k) ==
    IF k = 0 \/ cands = {} THEN <<>>
    ELSE LET best == CHOOSE i \in cands : \A j \in cands :
                        \/ Distance(q, i) < Distance(q, j)
                        \/ (Distance(q, i) = Distance(q, j) /\ i <= j)
         IN <<best>> \o Nearest(cands \ {best}, q, k - 1)

\* vectorstore.similarity_search_with_score(query, k): at most k segments
similarity_search(vs, q, k) ==
    LET order == Nearest(DOMAIN vs.docs, q, k)
    IN [n \in 1..Len(order) |-> vs.docs[order[n]]]

\* "\n\n".join(texts)
RECURSIVE Join(_)
Join(segs) == IF segs = <<>> THEN <<>> ELSE Head(segs) \o Join(Tail(segs))

\* ChainPrompt, were the saved exchanges rendered into the prompt
ChainPromptWithHistory(chain, q) ==
    [context |-> Join(similarity_search(chain.retriever, q, RETRIEVER_K)),
     question |-> q, chat_history |-> chain.memory]

\* qa_chain.invoke({"query": query}): the chain's retriever searches its own
\* store, the documents found are joined into the prompt's context, the
\* generation service is called, and the memory saves the exchange
ChainPrompt(chain, q) ==
    [context |-> Join(similarity_search(chain.retriever, q, RETRIEVER_K)),
     question |-> q]

NoPrompt == [context |-> <<>>, question |-> 0]

\* rag_pipeline without the `if not relevant_docs` return
rag_pipeline_always_generates(q, chain, vs, outcome) ==
    LET context == Join(similarity_search(vs, q, TOP_K))
    IN IF outcome \in {"embed_fail", "generate_fail"}
       THEN [status |-> "error", answer |-> NoAnswer, context |-> context,
             prompt |-> ChainPrompt(chain, q),
             generated |-> outcome = "generate_fail", chain |-> chain]
       ELSE [status |-> "answered",
             answer |-> IF outcome = "declined" THEN Fallback ELSE "generated",
             context |-> context, prompt |-> ChainPrompt(chain, q),
             generated |-> TRUE,
             chain |-> [chain EXCEPT !.memory = Append(@, q)]]

\* rag_pipeline(query, qa_chain, vectorstore).  The result names how the
\* call ended ("answered", "fallback", "error": a service raised, "crash":
\* an argument was None), the answer, the local context of line 150, the
\* prompt the generation service was given, and the chain afterwards.
rag_pipeline(q, chain, vs, outcome) ==
    LET out(status, answer, context, prompt, called, after) ==
            [status |-> status, answer |-> answer, context |-> context,
             prompt |-> prompt, generated |-> called, chain |-> after]
    IN IF vs = None THEN out("crash", NoAnswer, <<>>, NoPrompt, FALSE, chain)
       ELSE IF outcome = "embed_fail"
            THEN out("error", NoAnswer, <<>>, NoPrompt, FALSE, chain)
       ELSE LET relevant_docs == similarity_search(vs, q, TOP_K)
                context == Join(relevant_docs)
            IN IF relevant_docs = <<>>
               THEN out("fallback", Fallback, <<>>, NoPrompt, FALSE, chain)
               ELSE IF chain = None
                    THEN out("crash", NoAnswer, context, NoPrompt, FALSE, chain)
               ELSE IF outcome = "generate_fail"
                    THEN out("error", NoAnswer, context, ChainPrompt(chain, q), TRUE, chain)
               ELSE out("answered",
                        IF outcome = "declined" THEN Fallback ELSE "generated",
                        context, ChainPrompt(chain, q), TRUE,
                        [chain EXCEPT !.memory = Append(@, q)])

----------------------------------------------------------------------------
(* What a completed request returned.  chain and store are the identities  *)
(* of the objects the request built or queried; before is the Session      *)
(* (both globals) in the state in which the request completed.             *)

Respond(op, status, q, chain, vs, r, before) ==
    [op |-> op, status |-> status, query |-> q,
     chain |-> IdOf(chain), store |-> IdOf(vs),
     answer |-> r.answer, context |-> r.context, prompt |-> r.prompt,
     generated |-> r.generated, before |-> before]

NoResult == [answer |-> NoAnswer, context |-> <<>>, prompt |-> NoPrompt,
             generated |-> FALSE]

NoResponse == Respond("none", "none", 0, None, None, NoResult, <<None, None>>)

----------------------------------------------------------------------------
(* The web application, app.py.  Each handler is the sequence of its reads *)
(* and writes of the two globals; pc[t] is where thread t's handler is.    *)

\* the sources a request may name, as the blocks their reader returns:
\* nothing readable, one short block, and three blocks that make 4 chunks
Sources == { <<>>, << <<120>> >>, << <<250, 45, 250>>, <<300>>, <<301>> >> }

Session == <<qa_pipeline, vectorstore>>
\* `not qa_pipeline or not vectorstore` is false
Ready == qa_pipeline # None /\ vectorstore # None
Empty == qa_pipeline = None /\ vectorstore = None
AllIdle == \A t \in Threads : pc[t] = "idle"

Finish(t) ==
    /\ pc' = [pc EXCEPT ![t] = "idle"]
    /\ local' = [local EXCEPT ![t] = NoLocal]

\* index(): a GET, or a POST that is turned away before any processing
\* (unsupported file type, URL without scheme, no input)
IndexNoIngest(t, why) ==
    /\ pc[t] = "idle"
    /\ response' = Respond("index", why, 0, None, None, NoResult, Session)
    /\ UNCHANGED <<qa_pipeline, vectorstore, pc, local, sinceClear>>

\* IndexBuild, were a failed ingestion to reset the Session
IndexBuildDropsSession(t, blocks, outcome) ==
    /\ pc[t] = "idle"
    /\ LET segs == process_pdf(blocks)
           built == IF segs.raised THEN [raised |-> TRUE]
                    ELSE initialize_rag_pipeline(segs.docs, FreshId, outcome)
       IN \/ /\ built.raised
             /\ response' = Respond("index", "error", 0, None, None, NoResult, Session)
             /\ qa_pipeline' = None
             /\ vectorstore' = None
             /\ UNCHANGED <<pc, local, sinceClear>>
          \/ /\ ~built.raised
             /\ local' = [local EXCEPT ![t] = [query |-> 0, qa |-> built.qa, vs |-> built.vs]]
             /\ pc' = [pc EXCEPT ![t] = "index_store_qa"]
             /\ UNCHANGED <<qa_pipeline, vectorstore, response, sinceClear>>

\* index(): process_*(...) and initialize_rag_pipeline(texts).  Either may
\* raise, and the request then ends with the globals untouched; otherwise
\* the handler holds the new pair, not yet assigned.
IndexBuild(t, blocks, outcome) ==
    /\ pc[t] = "idle"
    /\ LET segs == process_pdf(blocks)
           built == IF segs.raised THEN [raised |-> TRUE]
                    ELSE initialize_rag_pipeline(segs.docs, FreshId, outcome)
       IN \/ /\ built.raised
             /\ response' = Respond("index", "error", 0, None, None, NoResult, Session)
             /\ UNCHANGED <<qa_pipeline, vectorstore, pc, local, sinceClear>>
          \/ /\ ~built.raised
             /\ local' = [local EXCEPT ![t] = [query |-> 0, qa |-> built.qa, vs |-> built.vs]]
             /\ pc' = [pc EXCEPT ![t] = "index_store_qa"]
             /\ UNCHANGED <<qa_pipeline, vectorstore, response, sinceClear>>

\* `qa_pipeline, vectorstore = ...`: the first store of the unpacking
IndexStoreQa(t) ==
    /\ pc[t] = "index_store_qa"
    /\ qa_pipeline' = local[t].qa
    /\ pc' = [pc EXCEPT ![t] = "index_store_vs"]
    /\ UNCHANGED <<vectorstore, local, response, sinceClear>>

\* the second store of the unpacking, then flash and render
IndexStoreVs(t) ==
    /\ pc[t] = "index_store_vs"
    /\ vectorstore' = local[t].vs
    /\ response' = Respond("index", "ok", 0, local[t].qa, local[t].vs, NoResult, Session)
    /\ sinceClear' = FALSE
    /\ Finish(t)
    /\ UNCHANGED qa_pipeline

\* ask() without the readiness check
AskCheckQaUnguarded(t, q) ==
    /\ pc[t] = "idle"
    /\ IF qa_pipeline = None THEN TRUE ELSE Len(qa_pipeline.memory) < MaxHistory
    /\ q # 0
    /\ pc' = [pc EXCEPT ![t] = "ask_load_qa"]
    /\ local' = [local EXCEPT ![t].query = q]
    /\ UNCHANGED <<qa_pipeline, vectorstore, response, sinceClear>>

\* ask(): `not qa_pipeline`, the first operand of the readiness check
AskCheckQa(t, q) ==
    /\ pc[t] = "idle"
    /\ IF qa_pipeline = None THEN TRUE ELSE Len(qa_pipeline.memory) < MaxHistory
    /\ IF qa_pipeline = None
       THEN /\ response' = Respond("ask", "not_ready", q, None, None, NoResult, Session)
            /\ UNCHANGED <<pc, local>>
       ELSE /\ pc' = [pc EXCEPT ![t] = "ask_check_vs"]
            /\ local' = [local EXCEPT ![t].query = q]
            /\ UNCHANGED response
    /\ UNCHANGED <<qa_pipeline, vectorstore, sinceClear>>

\* ask(): `not vectorstore`, then the test for an empty question
AskCheckVs(t) ==
    /\ pc[t] = "ask_check_vs"
    /\ IF vectorstore = None
       THEN /\ response' = Respond("ask", "not_ready", local[t].query, None, None, NoResult, Session)
            /\ Finish(t)
       ELSE IF local[t].query = 0
       THEN /\ response' = Respond("ask", "no_question", 0, None, None, NoResult, Session)
            /\ Finish(t)
       ELSE /\ pc' = [pc EXCEPT ![t] = "ask_load_qa"]
            /\ UNCHANGED <<local, response>>
    /\ UNCHANGED <<qa_pipeline, vectorstore, sinceClear>>

\* ask(): the arguments of the rag_pipeline call are read from the globals
AskLoadQa(t) ==
    /\ pc[t] = "ask_load_qa"
    /\ local' = [local EXCEPT ![t].qa = qa_pipeline]
    /\ pc' = [pc EXCEPT ![t] = "ask_load_vs"]
    /\ UNCHANGED <<qa_pipeline, vectorstore, response, sinceClear>>

AskLoadVs(t) ==
    /\ pc[t] = "ask_load_vs"
    /\ local' = [local EXCEPT ![t].vs = vectorstore]
    /\ pc' = [pc EXCEPT ![t] = "ask_call"]
    /\ UNCHANGED <<qa_pipeline, vectorstore, response, sinceClear>>

\* obj after the chain object `after` was changed in place: the same object
\* seen through another reference shows the change
Seen(obj, after) == IF obj # None /\ obj.id = after.id THEN after ELSE obj

\* ask(): rag_pipeline runs on the arguments read; an exception leaves the
\* handler as an error response
AskRun(t, outcome) ==
    /\ pc[t] = "ask_call"
    /\ LET r == rag_pipeline(local[t].query, local[t].qa, local[t].vs, outcome)
       IN /\ response' = Respond("ask", r.status, local[t].query,
                                 local[t].qa, local[t].vs, r, Session)
          /\ qa_pipeline' = Seen(qa_pipeline, r.chain)
          /\ local' = [u \in Threads |->
                         IF u = t THEN NoLocal
                         ELSE [local[u] EXCEPT !.qa = Seen(@, r.chain)]]
    /\ pc' = [pc EXCEPT ![t] = "idle"]
    /\ UNCHANGED <<vectorstore, sinceClear>>

\* clear() without its first assignment
ClearQaKeepsPipeline(t) ==
    /\ pc[t] = "idle"
    /\ pc' = [pc EXCEPT ![t] = "clear_vs"]
    /\ UNCHANGED <<qa_pipeline, vectorstore, local, response, sinceClear>>

\* clear(): qa_pipeline = None
ClearQa(t) ==
    /\ pc[t] = "idle"
    /\ qa_pipeline' = None
    /\ pc' = [pc EXCEPT ![t] = "clear_vs"]
    /\ UNCHANGED <<vectorstore, local, response, sinceClear>>

\* clear() without its second assignment
ClearVsKeepsStore(t) ==
    /\ pc[t] = "clear_vs"
    /\ response' = Respond("clear", "cleared", 0, None, None, NoResult, Session)
    /\ sinceClear' = TRUE
    /\ Finish(t)
    /\ UNCHANGED <<qa_pipeline, vectorstore>>

\* clear(): vectorstore = None, then flash and redirect
ClearVs(t) ==
    /\ pc[t] = "clear_vs"
    /\ vectorstore' = None
    /\ response' = Respond("clear", "cleared", 0, None, None, NoResult, Session)
    /\ sinceClear' = TRUE
    /\ Finish(t)
    /\ UNCHANGED qa_pipeline

Rejections == {"page", "unsupported", "bad_url", "no_input"}

WebInit ==
    /\ qa_pipeline = None
    /\ vectorstore = None
    /\ pc = [t \in Threads |-> "idle"]
    /\ local = [t \in Threads |-> NoLocal]
    /\ sinceClear = FALSE

CliOff == cliPc = "menu" /\ cliQa = None /\ cliVs = None
NotProcessed == [raised |-> FALSE, docs |-> <<>>]
ChunkOff == content = <<>> /\ texts = NotProcessed
ArgOff == arg_chain = None /\ arg_store = None

WebFrame == UNCHANGED <<cliVars, chunkVars, argVars>>

\* no other request is under way
Solo(t) == \A u \in Threads \ {t} : pc[u] = "idle"

\* requests served one at a time
SeqNext ==
    \/ \E t \in Threads, why \in Rejections :
          Solo(t) /\ IndexNoIngest(t, why) /\ WebFrame
    \/ \E t \in Threads, blocks \in Sources, outcome \in {"answer", "embed_fail"} :
          Solo(t) /\ IndexBuild(t, blocks, outcome) /\ WebFrame
    \/ \E t \in Threads : Solo(t) /\ IndexStoreQa(t) /\ WebFrame
    \/ \E t \in Threads : Solo(t) /\ IndexStoreVs(t) /\ WebFrame
    \/ \E t \in Threads, q \in Queries : Solo(t) /\ AskCheckQa(t, q) /\ WebFrame
    \/ \E t \in Threads : Solo(t) /\ AskCheckVs(t) /\ WebFrame
    \/ \E t \in Threads : Solo(t) /\ AskLoadQa(t) /\ WebFrame
    \/ \E t \in Threads : Solo(t) /\ AskLoadVs(t) /\ WebFrame
    \/ \E t \in Threads, outcome \in Outcomes : Solo(t) /\ AskRun(t, outcome) /\ WebFrame
    \/ \E t \in Threads : Solo(t) /\ ClearQa(t) /\ WebFrame
    \/ \E t \in Threads : Solo(t) /\ ClearVs(t) /\ WebFrame

\* requests served by concurrent threads, as the development server does;
\* the interleavings are explored for one readable source, one unreadable
\* one, one question and the empty question
ConcSources == {<<>>, << <<120>> >>}
ConcQueries == {0, 1}
ConcNext ==
    \/ \E t \in Threads : IndexNoIngest(t, "page") /\ WebFrame
    \/ \E t \in Threads, blocks \in ConcSources, outcome \in {"answer", "embed_fail"} :
          IndexBuild(t, blocks, outcome) /\ WebFrame
    \/ \E t \in Threads : IndexStoreQa(t) /\ WebFrame
    \/ \E t \in Threads : IndexStoreVs(t) /\ WebFrame
    \/ \E t \in Threads, q \in ConcQueries : AskCheckQa(t, q) /\ WebFrame
    \/ \E t \in Threads : AskCheckVs(t) /\ WebFrame
    \/ \E t \in Threads : AskLoadQa(t) /\ WebFrame
    \/ \E t \in Threads : AskLoadVs(t) /\ WebFrame
    \/ \E t \in Threads, outcome \in Outcomes : AskRun(t, outcome) /\ WebFrame
    \/ \E t \in Threads : ClearQa(t) /\ WebFrame
    \/ \E t \in Threads : ClearVs(t) /\ WebFrame

Init == WebInit /\ CliOff /\ ChunkOff /\ ArgOff /\ response = NoResponse

Spec == Init /\ [][SeqNext]_vars
SpecConc == Init /\ [][ConcNext]_vars

----------------------------------------------------------------------------
(* The command-line loop, chatbot_functions.py __main__.  The whole body   *)
(* of the outer loop, the query loop included, is inside one try block.    *)

\* choice "4"
CliQuit ==
    /\ cliPc = "menu"
    /\ cliPc' = "exit"
    /\ response' = Respond("cli_menu", "quit", 0, None, None, NoResult, <<cliQa, cliVs>>)
    /\ UNCHANGED <<cliQa, cliVs>>

\* an invalid choice, or a path that does not exist: back to the menu
CliRetry(why) ==
    /\ cliPc = "menu"
    /\ response' = Respond("cli_menu", why, 0, None, None, NoResult, <<cliQa, cliVs>>)
    /\ UNCHANGED <<cliPc, cliQa, cliVs>>

\* choice 1, 2 or 3: process_*, then initialize_rag_pipeline; an exception
\* is caught by the outer except, which prints it and returns to the menu
CliProcess(blocks, outcome) ==
    /\ cliPc = "menu"
    /\ LET segs == process_pdf(blocks)
           built == IF segs.raised THEN [raised |-> TRUE]
                    ELSE initialize_rag_pipeline(segs.docs, FreshId, outcome)
       IN \/ /\ built.raised
             /\ response' = Respond("cli_index", "error", 0, None, None, NoResult, <<cliQa, cliVs>>)
             /\ UNCHANGED <<cliPc, cliQa, cliVs>>
          \/ /\ ~built.raised
             /\ cliQa' = built.qa
             /\ cliVs' = built.vs
             /\ cliPc' = "query"
             /\ response' = Respond("cli_index", "ok", 0, built.qa, built.vs, NoResult, <<cliQa, cliVs>>)

\* 'quit' at the query prompt
CliQueryQuit ==
    /\ cliPc = "query"
    /\ cliPc' = "exit"
    /\ response' = Respond("cli_query", "quit", 0, None, None, NoResult, <<cliQa, cliVs>>)
    /\ UNCHANGED <<cliQa, cliVs>>

\* 'new' at the query prompt: break out of the query loop
CliQueryNew ==
    /\ cliPc = "query"
    /\ cliPc' = "menu"
    /\ response' = Respond("cli_query", "new", 0, None, None, NoResult, <<cliQa, cliVs>>)
    /\ UNCHANGED <<cliQa, cliVs>>

\* any other input is a question: rag_pipeline, then print.  An exception
\* from rag_pipeline leaves the query loop for the outer except clause.
CliAsk(q, outcome) ==
    /\ cliPc = "query"
    /\ Len(cliQa.memory) < MaxHistory
    /\ LET r == rag_pipeline(q, cliQa, cliVs, outcome)
       IN /\ response' = Respond("cli_ask", r.status, q, cliQa, cliVs, r, <<cliQa, cliVs>>)
          /\ cliQa' = r.chain
          /\ cliPc' = IF r.status \in {"error", "crash"} THEN "menu" ELSE "query"
    /\ UNCHANGED cliVs

CliNext ==
    \/ CliQuit /\ UNCHANGED <<webVars, chunkVars, argVars>>
    \/ \E why \in {"invalid_choice", "file_not_found"} :
          CliRetry(why) /\ UNCHANGED <<webVars, chunkVars, argVars>>
    \/ \E blocks \in Sources, outcome \in {"answer", "embed_fail"} :
          CliProcess(blocks, outcome) /\ UNCHANGED <<webVars, chunkVars, argVars>>
    \/ CliQueryQuit /\ UNCHANGED <<webVars, chunkVars, argVars>>
    \/ CliQueryNew /\ UNCHANGED <<webVars, chunkVars, argVars>>
    \/ \E q \in Queries, outcome \in Outcomes :
          CliAsk(q, outcome) /\ UNCHANGED <<webVars, chunkVars, argVars>>

SpecCli == Init /\ [][CliNext]_vars

----------------------------------------------------------------------------
(* Chunking on its own: process_pdf applied to the blocks a reader returned *)

\* paragraph lengths around the chunk size and the overlap
ParLens == {10, 45, 130, 250, 300, 301}
Blocks == UNION {[1..n -> ParLens] : n \in 1..MaxPars}
ChunkInputs == {<<>>} \cup {<<b>> : b \in Blocks}

ChunkInit ==
    /\ content \in ChunkInputs
    /\ texts = NotProcessed
    /\ WebInit /\ CliOff /\ ArgOff /\ response = NoResponse

ChunkProcess ==
    /\ texts = NotProcessed
    /\ texts' = process_pdf(content)
    /\ UNCHANGED <<content, webVars, cliVars, argVars, response>>

SpecChunk == ChunkInit /\ [][ChunkProcess]_vars

----------------------------------------------------------------------------
(* rag_pipeline on its own: called with a store and a chain over it that   *)
(* the caller constructed, the store holding any number of segments        *)

SegTexts == {<<120>>, <<250, 45>>}
DocSeqs == UNION {[1..n -> SegTexts] : n \in 0..MaxDocs}

RagInit ==
    /\ arg_store \in {[id |-> 1, docs |-> d] : d \in DocSeqs}
    /\ arg_chain = [id |-> 1, retriever |-> arg_store, memory |-> <<>>]
    /\ WebInit /\ CliOff /\ ChunkOff /\ response = NoResponse

RagCall(q, outcome) ==
    /\ Len(arg_chain.memory) < MaxHistory
    /\ LET r == rag_pipeline(q, arg_chain, arg_store, outcome)
       IN /\ response' = Respond("call", r.status, q, arg_chain, arg_store, r,
                                 <<arg_chain, arg_store>>)
          /\ arg_chain' = r.chain
    /\ UNCHANGED <<arg_store, webVars, cliVars, chunkVars>>

RagNext == \E q \in Queries, outcome \in Outcomes : RagCall(q, outcome)

SpecRag == RagInit /\ [][RagNext]_vars

----------------------------------------------------------------------------
(* Properties *)

ReadyPair(pair) == pair[1] # None /\ pair[2] # None
\* the ask reached rag_pipeline
Reached == {"answered", "fallback", "error", "crash"}
\* places of ask() past the readiness check
PastCheck == {"ask_load_qa", "ask_load_vs", "ask_call"}

\* C1: with requests served one at a time, ask() gets past its readiness
\* check, and so to rag_pipeline, only while the Session is Ready; an ask
\* that finds the Session not Ready is answered "not_ready" with nothing
\* retrieved and the generation service not called.
C1_AskNeedsReadySession ==
    /\ \A t \in Threads : pc[t] \in PastCheck => Ready
    /\ response.op = "ask" =>
          /\ response.status \in Reached => ReadyPair(response.before)
          /\ ~ReadyPair(response.before) =>
                /\ response.status = "not_ready"
                /\ response.context = <<>>
                /\ ~response.generated

C1_Witness ==
    /\ response.op = "ask" /\ response.status = "not_ready"
    /\ Empty /\ AllIdle

\* C2: with requests served one at a time, an ingestion that fails (no
\* content, or the embedding / index build raising) leaves both globals and
\* the objects they refer to as they were, Ready or Empty; an ask that
\* follows it runs on that same pair and retrieves from that store, or is
\* rejected as not ready if the Session was Empty.
C2_FailedIngestKeepsSession ==
    /\ [](AllIdle /\ response.op = "index" /\ response.status = "error"
            => Session = response.before)
    /\ [][response.op = "index" /\ response.status = "error" /\ response'.op = "ask"
            => IF ReadyPair(response.before)
               THEN /\ response'.status # "not_ready"
                    /\ response'.status \in Reached =>
                          /\ response'.chain = response.before[1].id
                          /\ response'.store = response.before[2].id
                    /\ response'.status = "answered" =>
                          response'.context =
                            Join(similarity_search(response.before[2],
                                                   response'.query, TOP_K))
               ELSE response'.status = "not_ready"]_vars

C2_Witness ==
    /\ AllIdle /\ response.op = "index" /\ response.status = "error"
    /\ Ready /\ Len(qa_pipeline.memory) > 0

\* a step of the clear handler
ClearStep == \E t \in Threads : pc[t] = "clear_vs" \/ pc'[t] = "clear_vs"

\* C3: with requests served one at a time, clear() can always run and
\* complete, and it leaves both globals None; a clear that follows a clear
\* changes nothing; and from a completed clear until an ingestion succeeds
\* no ask gets past the readiness check: each is answered "not_ready" and
\* uses no store.
C3_ClearEmptiesSession ==
    /\ [](AllIdle => \A t \in Threads : ENABLED ClearQa(t))
    /\ [](\A t \in Threads : pc[t] = "clear_vs" => ENABLED ClearVs(t))
    /\ [](AllIdle /\ response.op = "clear" => Empty /\ response.status = "cleared")
    /\ [][ClearStep /\ response.op = "clear"
            => Session' = Session /\ sinceClear' = sinceClear]_vars
    /\ [](sinceClear =>
            /\ \A t \in Threads : pc[t] \notin PastCheck
            /\ response.op = "ask" =>
                  /\ response.status = "not_ready"
                  /\ response.store = None.id
                  /\ ~response.generated)

C3_Witness ==
    /\ sinceClear /\ AllIdle
    /\ response.op = "ask" /\ response.status = "not_ready"

\* C4: under any interleaving of requests, the arguments ask() hands to
\* rag_pipeline are a chain and the store that chain was built over,
\* neither of them None.
C4_AskSeesConsistentPair ==
    \A t \in Threads :
        pc[t] = "ask_call" =>
            /\ local[t].qa # None
            /\ local[t].vs # None
            /\ local[t].qa.retriever.id = local[t].vs.id

\* C5: the context in the prompt given to the generation service is the
\* joined text of the segments the explicit top-3 search returned.
C5_PromptContextIsTopK ==
    response.op = "ask" /\ response.generated =>
        response.prompt.context = response.context

\* C6: when the store returns no segment for the question, rag_pipeline
\* returns the fallback sentence and the generation service is not called
\* (if the search itself raises, nothing is generated either).
C6_EmptyRetrievalFallsBack ==
    response.op = "call" /\ arg_store.docs = <<>> =>
        /\ ~response.generated
        /\ response.status # "error" =>
              /\ response.status = "fallback"
              /\ response.answer = Fallback

C6_Witness ==
    /\ response.op = "call" /\ arg_store.docs = <<>>
    /\ response.status = "fallback"

\* C7: a query in which a service raises is reported as an error, not as
\* the fallback sentence, and the index it ran on stays queryable: in the
\* web handler the Session is as before, in the command-line loop the loop
\* is still at the query prompt with the same chain and store.
C7_QueryFailureKeepsSession ==
    /\ response.op = "ask" /\ response.status = "error" /\ AllIdle =>
          response.answer # Fallback /\ Session = response.before
    /\ response.op = "cli_ask" /\ response.status = "error" =>
          /\ response.answer # Fallback
          /\ cliPc = "query"
          /\ <<cliQa, cliVs>> = response.before

\* C8: every segment produced from a block is at most CHUNK_SIZE long, and
\* consecutive segments of a block start CHUNK_SIZE - CHUNK_OVERLAP apart.
C8_SegmentsBoundedAndStrided ==
    texts.docs # <<>> =>
        /\ \A i \in DOMAIN texts.docs : TextLen(texts.docs[i]) <= CHUNK_SIZE
        /\ LET starts == ChunkStarts(content[1])
           IN \A k \in 1..(Len(starts) - 1) :
                 starts[k + 1] = starts[k] + (CHUNK_SIZE - CHUNK_OVERLAP)

\* C9 as stated: after any ask the Session holds the same objects with the
\* same contents as before it.
C9_AskLeavesSessionUntouched ==
    AllIdle /\ response.op = "ask" => Session = response.before

\* C9 as amended: after any ask the Session holds the same two objects, the
\* store and the chain's retriever are unchanged, and the chain's memory is
\* what it was, with the question appended if the ask was answered by the
\* generation service; an answered ask that repeats the question of the
\* answered ask before it, on the same chain and store, has the same
\* retrieved context and gives the generation service the same prompt.
C9_AskKeepsIndex ==
    /\ [](AllIdle /\ response.op = "ask" =>
            /\ vectorstore = response.before[2]
            /\ qa_pipeline.id = response.before[1].id
            /\ ReadyPair(response.before) =>
                  /\ qa_pipeline.retriever = response.before[1].retriever
                  /\ qa_pipeline.memory =
                        IF response.status = "answered"
                        THEN Append(response.before[1].memory, response.query)
                        ELSE response.before[1].memory)
    /\ [][/\ response.op = "ask" /\ response.status = "answered"
          /\ response'.op = "ask" /\ response'.status = "answered"
          /\ response'.query = response.query
          /\ response'.chain = response.chain
          /\ response'.store = response.store
          => /\ response'.context = response.context
             /\ response'.prompt = response.prompt]_vars

C9_Witness ==
    /\ AllIdle /\ response.op = "ask" /\ response.status = "answered"
    /\ Len(qa_pipeline.memory) >= 2
    /\ qa_pipeline.memory[Len(qa_pipeline.memory)]
         = qa_pipeline.memory[Len(qa_pipeline.memory) - 1]

\* C10: between requests served one at a time, the two globals are both
\* None or both set, and when set the chain's retriever searches the very
\* store the Session holds.
C10_SessionPairConsistent ==
    AllIdle =>
        /\ (qa_pipeline = None) <=> (vectorstore = None)
        /\ qa_pipeline # None => qa_pipeline.retriever = vectorstore

C10_Witness ==
    /\ AllIdle /\ Ready
    /\ response.op = "index" /\ response.status = "ok"
    /\ response.before[2] # None /\ response.before[2] # vectorstore

====
